---------------------------- MODULE Spec2Model ----------------------------
(***************************************************************************)
(* A model of the GitHub project automation scripts:                       *)
(*                                                                         *)
(*   update_status.py  the status reconciler (labels -> board Status)      *)
(*   select_issue.py   the priority selector                               *)
(*   fetch_issue.py    the issue projector and validator                   *)
(*                                                                         *)
(* The tracker and the board are external; their data are variables the    *)
(* scripts read and write through calls that may fail.                     *)
(***************************************************************************)
EXTENDS Integers, Sequences, FiniteSets, TLC

VARIABLES
    \* ---- the tracker and the board, as update_status.py sees them
    issueLabels,    \* issue number -> the label names `gh issue view` returns, in order
    boardItems,     \* issue number -> its project items, in the order the board lists them
    statusField,    \* the board's single-select field named Status, or None
    \* ---- update_status.py: arguments
    START_ISSUE,
    END_ISSUE,
    \* ---- update_status.py: main()'s locals
    pc,             \* the position of main()
    status_field,   \* what get_status_field_info returned
    issue_number,   \* the loop variable
    status_label,
    item_id,
    updated,
    skipped,
    errors,
    \* ---- update_status.py: what the run did
    calls,          \* the external calls and sleeps of this run, in order
    stdout,         \* the per-issue lines this run printed, in order
    exitStatus,     \* "running", or the process's exit status
    firstRun,       \* the record of the previous run, when the run is a second one
    \* ---- select_issue.py and fetch_issue.py: the tracker
    tierIssues,     \* priority -> the open issues the label filters of that tier match
    createdAt,      \* issue number -> its creation time
    trackerIssue,   \* what `gh issue view` returns for the issue to fetch
    \* ---- select_issue.py and fetch_issue.py: the process
    command,        \* the script that runs
    priorityArg,    \* --priority, or None
    cliPc,          \* the position of the script's main()
    tier,           \* select_with_fallback's place in PRIORITY_ORDER
    issue,          \* the issue main() of select_issue.py got
    queries,        \* the tracker calls of this run, in order
    structured,     \* fetch_issue()'s record
    validation,     \* validate_issue()'s answer
    cliStdout,
    cliStderr,
    cliExit,        \* "running", or the process's exit status
    prevRun         \* how the previous run of a command ended

reconcilerVars == <<issueLabels, boardItems, statusField, START_ISSUE, END_ISSUE,
                    pc, status_field, issue_number, status_label, item_id,
                    updated, skipped, errors, calls, stdout, exitStatus,
                    firstRun>>

cliVars == <<tierIssues, createdAt, trackerIssue, command, priorityArg, cliPc, tier,
             issue, queries, structured, validation, cliStdout, cliStderr, cliExit,
             prevRun>>

vars == <<reconcilerVars, cliVars>>

None == "None"

\* get_status_field_info's None: the project has no field named Status.
NoField == [id |-> None, options |-> {}]

\* get_project_item_id's None: no item of the project.
NoItem == <<0, 0>>

--------------------------------------------------------------------------
(* Bounds of the model *)

\* Issue numbers of the tracker in the bounded worlds: 1..MaxIssue.
MaxIssue == 2

\* The open issues the selector's tracker holds: 1..MaxSelIssue.
MaxSelIssue == 2

\* The longest issue body the parser is given, in lines.
MaxLines == 4

\* The longest label list the label codec is given.
MaxLabels == 3

--------------------------------------------------------------------------
(* update_status.py *)

\* sys.argv[2]; the script's own example uses project 4.
PROJECT_NUMBER == 4

\* Another project an issue may also be attached to.
OtherProject(k) == PROJECT_NUMBER + k

\* projectItems(first: 10): the lookup reads one page of items and no more.
ItemsPageSize == 10

NoStatus == "NoStatus"

StatusLabels == {"status:backlog", "status:in-progress", "status:done"}

OptionNames == {"Todo", "Backlog", "In Progress", "In progress", "Done"}

\* The opaque id the board gives the option of that name.
OptionId(name) ==
    CASE name = "Todo" -> "opt-todo"
      [] name = "Backlog" -> "opt-backlog"
      [] name = "In Progress" -> "opt-in-progress-1"
      [] name = "In progress" -> "opt-in-progress-2"
      [] name = "Done" -> "opt-done"

\* A board item of a project, with the value of its Status field.
Item(project) == [project |-> project, status |-> NoStatus]

Items(projects) == [k \in 1..Len(projects) |-> Item(projects[k])]

\* dict.get(key): the value, or None.
Get(map, key) == IF key \in DOMAIN map THEN map[key] ELSE None

\* Python's `a or b` on values that are None or a non-empty string.
Or(a, b) == IF a # None THEN a ELSE b

\* option_map = {opt["name"]: opt["id"] for opt in status_field["options"]}
option_map(field) == [n \in field.options |-> OptionId(n)]

\* The LABEL_TO_STATUS table main() builds from the board's options.
LabelToStatusBacklogFirst(field) ==
    [l \in StatusLabels |->
        CASE l = "status:backlog" ->
                Or(Get(option_map(field), "Backlog"), Get(option_map(field), "Todo"))
          [] l = "status:in-progress" ->
                Or(Get(option_map(field), "In Progress"),
                   Get(option_map(field), "In progress"))
          [] l = "status:done" -> Get(option_map(field), "Done")]

LABEL_TO_STATUS(field) ==
    [l \in StatusLabels |->
        CASE l = "status:backlog" ->
                Or(Get(option_map(field), "Todo"), Get(option_map(field), "Backlog"))
          [] l = "status:in-progress" ->
                Or(Get(option_map(field), "In Progress"),
                   Get(option_map(field), "In progress"))
          [] l = "status:done" -> Get(option_map(field), "Done")]

\* for label in labels: if label in LABEL_TO_STATUS: status_label = label; break
RECURSIVE FindStatusLabel(_)
FindStatusLabel(labels) ==
    IF labels = << >> THEN None
    ELSE IF Head(labels) \in StatusLabels THEN Head(labels)
    ELSE FindStatusLabel(Tail(labels))

\* The nodes the projectItems(first: 10) query returns: the first page.
FirstPage(items) == SubSeq(items, 1, IF Len(items) < ItemsPageSize THEN Len(items)
                                     ELSE ItemsPageSize)

\* get_project_item_id: the id of the first returned item of the project, or
\* None. An item's id is <<issue, its place in the issue's item list>>.
RECURSIVE FirstMatch(_, _, _)
FirstMatch(nodes, k, project_number) ==
    IF k > Len(nodes) THEN 0
    ELSE IF nodes[k].project = project_number THEN k
    ELSE FirstMatch(nodes, k + 1, project_number)

GetFirstItemId(n, project_number) ==
    IF FirstPage(boardItems[n]) = << >> THEN NoItem ELSE <<n, 1>>

get_project_item_id(n, project_number) ==
    LET k == FirstMatch(FirstPage(boardItems[n]), 1, project_number)
    IN  IF k = 0 THEN NoItem ELSE <<n, k>>

Call(name, n, ok) == [call |-> name, issue |-> n, ok |-> ok]

Sleep(n) == [call |-> "sleep", issue |-> n, ok |-> TRUE]

\* One printed line about an issue: "updated" (line 177), "skipping" (154),
\* "not-in-project" (161), "no-option" (168), "error" (184).
Emit(n, line) == stdout' = Append(stdout, [issue |-> n, line |-> line])

\* The end of one iteration of the for loop: the next issue_number.
NextIssue ==
    /\ issue_number' = issue_number + 1
    /\ status_label' = None
    /\ item_id' = NoItem
    /\ pc' = "labels"

\* The except clause of the loop body (lines 183-185).
CountErrorBreak ==
    /\ Emit(issue_number, "error")
    /\ errors' = errors + 1
    /\ UNCHANGED <<updated, skipped>>
    /\ issue_number' = END_ISSUE + 1
    /\ status_label' = None
    /\ item_id' = NoItem
    /\ pc' = "labels"

CountErrorRetry ==
    /\ Emit(issue_number, "error")
    /\ errors' = errors + 1
    /\ UNCHANGED <<updated, skipped, issue_number>>
    /\ status_label' = None
    /\ item_id' = NoItem
    /\ pc' = "labels"

CountError ==
    /\ Emit(issue_number, "error")
    /\ errors' = errors + 1
    /\ UNCHANGED <<updated, skipped>>
    /\ NextIssue

\* Lines 160-163 and 167-170: an error counted without an exception.
CountFailure(line) ==
    /\ Emit(issue_number, line)
    /\ errors' = errors + 1
    /\ UNCHANGED <<updated, skipped>>
    /\ NextIssue

\* Lines 160-163: no item of the project for the issue.
NotInProjectSkipped ==
    /\ Emit(issue_number, "not-in-project")
    /\ skipped' = skipped + 1
    /\ UNCHANGED <<updated, errors>>
    /\ NextIssue

NotInProject == CountFailure("not-in-project")

\* Lines 167-170: no option of the board for the label.
NoOptionNotCounted ==
    /\ Emit(issue_number, "no-option")
    /\ UNCHANGED <<updated, skipped, errors>>
    /\ NextIssue

NoOption == CountFailure("no-option")

\* Lines 153-156: no status label, the issue is skipped.
SkipIssueAfterLookup ==
    /\ Emit(issue_number, "skipping")
    /\ skipped' = skipped + 1
    /\ UNCHANGED <<updated, errors, issue_number, item_id>>
    /\ status_label' = "status:backlog"
    /\ pc' = "item"

SkipIssue ==
    /\ Emit(issue_number, "skipping")
    /\ skipped' = skipped + 1
    /\ UNCHANGED <<updated, errors>>
    /\ NextIssue

world == <<issueLabels, statusField, START_ISSUE, END_ISSUE>>

\* Lines 114-139: the schema fetch, the Status field check, the counters.
\* Lines 117-119: "if not status_field" lets the run go on only with a field.
StatusFieldAssumed(field) == TRUE

StatusFieldFound(field) == field # NoField

GetStatusFieldInfo ==
    /\ pc = "start"
    /\ \E ok \in BOOLEAN :
        /\ calls' = Append(calls, Call("schema", 0, ok))
        /\ IF ~ok
           THEN \* subprocess.run(check=True) raises outside any try
                /\ pc' = "crashed"
                /\ exitStatus' = 1
                /\ UNCHANGED <<status_field, issue_number, updated, skipped, errors>>
           ELSE IF ~StatusFieldFound(statusField)
           THEN /\ pc' = "exited"
                /\ exitStatus' = 1
                /\ UNCHANGED <<status_field, issue_number, updated, skipped, errors>>
           ELSE /\ status_field' = statusField
                /\ updated' = 0
                /\ skipped' = 0
                /\ errors' = 0
                /\ issue_number' = START_ISSUE
                /\ pc' = "labels"
                /\ UNCHANGED exitStatus
    /\ UNCHANGED <<world, boardItems, status_label, item_id, stdout, firstRun>>
    /\ UNCHANGED cliVars

\* Lines 142-156: the label fetch and the search for the status label.
GetIssueLabels ==
    /\ pc = "labels"
    /\ issue_number <= END_ISSUE
    /\ \E ok \in BOOLEAN :
        /\ calls' = Append(calls, Call("labels", issue_number, ok))
        /\ IF ~ok
           THEN CountError
           ELSE LET label == FindStatusLabel(issueLabels[issue_number])
                IN  IF label = None
                    THEN SkipIssue
                    ELSE /\ status_label' = label
                         /\ pc' = "item"
                         /\ UNCHANGED <<issue_number, item_id, updated, skipped, errors,
                                        stdout>>
    /\ UNCHANGED <<world, boardItems, status_field, exitStatus, firstRun>>
    /\ UNCHANGED cliVars

\* Lines 158-163: the board item lookup.
GetProjectItemId ==
    /\ pc = "item"
    /\ \E ok \in BOOLEAN :
        /\ calls' = Append(calls, Call("item", issue_number, ok))
        /\ IF ~ok
           THEN CountError
           ELSE LET id == get_project_item_id(issue_number, PROJECT_NUMBER)
                IN  IF id = NoItem
                    THEN NotInProject
                    ELSE /\ item_id' = id
                         /\ pc' = "update"
                         /\ UNCHANGED <<issue_number, status_label, updated, skipped,
                                        errors, stdout>>
    /\ UNCHANGED <<world, boardItems, status_field, exitStatus, firstRun>>
    /\ UNCHANGED cliVars

\* updateProjectV2ItemFieldValue: the item's Status becomes the option.
SetStatusToggle(items, id, option_id) ==
    [items EXCEPT ![id[1]][id[2]].status = IF @ = option_id THEN NoStatus ELSE option_id]

\* Lines 45-67: the mutation names one item, itemId, and one field.
SetStatusOfEveryItem(items, id, option_id) ==
    [items EXCEPT ![id[1]] = [k \in DOMAIN @ |-> [@[k] EXCEPT !.status = option_id]]]

SetStatus(items, id, option_id) ==
    [items EXCEPT ![id[1]][id[2]].status = option_id]

\* Line 181: the delay that follows a successful update.
NoRateLimiting(n) == << >>

RateLimiting(n) == <<Sleep(n)>>

\* Line 166: the label whose option is written is the one main() found in
\* the labels it fetched for this iteration (the local status_label).
LabelFetchedAgain ==
    IF FindStatusLabel(issueLabels[issue_number]) = None
    THEN status_label
    ELSE FindStatusLabel(issueLabels[issue_number])

LabelToWrite == status_label

\* Lines 165-181: the option lookup, the update call, the count, the delay.
UpdateIssueStatus ==
    /\ pc = "update"
    /\ LET option_id == LABEL_TO_STATUS(status_field)[LabelToWrite]
       IN  IF option_id = None
           THEN /\ NoOption
                /\ UNCHANGED <<calls, boardItems>>
           ELSE \E ok \in BOOLEAN :
                IF ~ok
                THEN /\ calls' = Append(calls, Call("update", issue_number, FALSE))
                     /\ CountError
                     /\ UNCHANGED boardItems
                ELSE /\ calls' = Append(calls, Call("update", issue_number, TRUE))
                                \o RateLimiting(issue_number)
                     /\ boardItems' = SetStatus(boardItems, item_id, option_id)
                     /\ Emit(issue_number, "updated")
                     /\ updated' = updated + 1
                     /\ UNCHANGED <<skipped, errors>>
                     /\ NextIssue
    /\ UNCHANGED <<world, status_field, exitStatus, firstRun>>
    /\ UNCHANGED cliVars

\* Lines 187-194: the loop is over; the summary is printed and main returns.
PrintSummary ==
    /\ pc = "labels"
    /\ issue_number > END_ISSUE
    /\ pc' = "done"
    /\ exitStatus' = 0
    /\ UNCHANGED <<world, boardItems, status_field, issue_number, status_label, item_id,
                   updated, skipped, errors, calls, stdout, firstRun>>
    /\ UNCHANGED cliVars

NoRun == [ran |-> FALSE]

\* The summary main() prints.
Summary == [updated |-> updated, skipped |-> skipped, errors |-> errors]

--------------------------------------------------------------------------
(* Text: a string the scripts take apart is a sequence of characters *)

Uppers == <<"A", "B", "C", "D", "E", "F", "G", "H", "I", "J", "K", "L", "M",
            "N", "O", "P", "Q", "R", "S", "T", "U", "V", "W", "X", "Y", "Z">>

Lowers == <<"a", "b", "c", "d", "e", "f", "g", "h", "i", "j", "k", "l", "m",
            "n", "o", "p", "q", "r", "s", "t", "u", "v", "w", "x", "y", "z">>

\* str.lower() of one character.
Lower(c) ==
    IF \E k \in DOMAIN Uppers : Uppers[k] = c
    THEN Lowers[CHOOSE k \in DOMAIN Uppers : Uppers[k] = c]
    ELSE c

LowerText(s) == [k \in 1..Len(s) |-> Lower(s[k])]

\* The characters \s matches and str.strip() removes.
IsSpace(c) == c \in {" ", "\t"}

\* str.startswith(prefix)
StartsWith(s, prefix) ==
    /\ Len(prefix) <= Len(s)
    /\ SubSeq(s, 1, Len(prefix)) = prefix

\* re.search of a literal: the literal occurs somewhere in s.
Contains(s, literal) ==
    \E i \in 1..(Len(s) - Len(literal) + 1) :
        SubSeq(s, i, i + Len(literal) - 1) = literal

\* The first place at or after i that holds no whitespace (Len(s) + 1 if none).
RECURSIVE SkipSpaces(_, _)
SkipSpaces(s, i) ==
    IF i <= Len(s) /\ IsSpace(s[i]) THEN SkipSpaces(s, i + 1) ELSE i

\* The last place at or before j that holds no whitespace (0 if none).
RECURSIVE SkipSpacesBack(_, _)
SkipSpacesBack(s, j) ==
    IF j >= 1 /\ IsSpace(s[j]) THEN SkipSpacesBack(s, j - 1) ELSE j

\* str.strip()
Strip(s) == SubSeq(s, SkipSpaces(s, 1), SkipSpacesBack(s, Len(s)))

--------------------------------------------------------------------------
(* fetch_issue.py *)

\* None where a string is expected.
Absent == <<None>>

AcceptanceCriteriaText ==
    <<"a", "c", "c", "e", "p", "t", "a", "n", "c", "e", " ",
      "c", "r", "i", "t", "e", "r", "i", "a">>

\* re.search(r'acceptance criteria', line, re.IGNORECASE)
IsCriteriaHeader(line) == Contains(LowerText(line), AcceptanceCriteriaText)

\* Where the "[" of a checkbox stands if the line starts as ^\s*-\s*\[ , else 0.
BracketAt(line) ==
    LET dash == SkipSpaces(line, 1)
    IN  IF dash <= Len(line) /\ line[dash] = "-"
        THEN LET b == SkipSpaces(line, dash + 1)
             IN  IF b <= Len(line) /\ line[b] = "[" THEN b ELSE 0
        ELSE 0

\* re.match(r'^\s*-\s*\[([ xX])\]\s*(.+)$', line): after the bracket a marker,
\* "]" and at least one more character.
IsCheckbox(line) ==
    LET b == BracketAt(line)
    IN  /\ b # 0
        /\ Len(line) >= b + 3
        /\ line[b + 1] \in {" ", "x", "X"}
        /\ line[b + 2] = "]"

\* match.group(1)
CheckboxMarker(line) == line[BracketAt(line) + 1]

\* match.group(2): \s* takes the whitespace after "]" but leaves the last
\* character to (.+) when whitespace is all there is.
CheckboxText(line) ==
    LET from == SkipSpaces(line, BracketAt(line) + 3)
    IN  IF from <= Len(line) THEN SubSeq(line, from, Len(line))
        ELSE SubSeq(line, Len(line), Len(line))

Criterion(line) ==
    [checked |-> Lower(CheckboxMarker(line)) = "x",
     text |-> Strip(CheckboxText(line))]

\* The for loop of parse_acceptance_criteria from line k on.
RECURSIVE ParseLines(_, _, _, _)
ParseLines(lines, k, in_criteria_section, criteria) ==
    IF k > Len(lines) THEN criteria
    ELSE IF IsCriteriaHeader(lines[k])
    THEN ParseLines(lines, k + 1, TRUE, criteria)
    ELSE IF ~in_criteria_section
    THEN ParseLines(lines, k + 1, FALSE, criteria)
    ELSE IF IsCheckbox(lines[k])
    THEN ParseLines(lines, k + 1, TRUE, Append(criteria, Criterion(lines[k])))
    ELSE IF Strip(lines[k]) = << >>
    THEN ParseLines(lines, k + 1, TRUE, criteria)
    ELSE IF StartsWith(lines[k], <<"#">>)
    THEN criteria
    ELSE ParseLines(lines, k + 1, TRUE, criteria)

\* body.split("\n") is the sequence of lines; the empty body has none.
parse_acceptance_criteria(body) ==
    IF body = << >> THEN << >> ELSE ParseLines(body, 1, FALSE, << >>)

\* extract_label: the rest of the first label that starts with the prefix.
RECURSIVE ExtractLastLabel(_, _)
ExtractLastLabel(labels, prefix) ==
    IF labels = << >> THEN Absent
    ELSE IF ExtractLastLabel(Tail(labels), prefix) # Absent
    THEN ExtractLastLabel(Tail(labels), prefix)
    ELSE IF StartsWith(Head(labels), prefix)
    THEN SubSeq(Head(labels), Len(prefix) + 1, Len(Head(labels)))
    ELSE Absent

RECURSIVE extract_label(_, _)
extract_label(labels, prefix) ==
    IF labels = << >> THEN Absent
    ELSE IF StartsWith(Head(labels), prefix)
    THEN SubSeq(Head(labels), Len(prefix) + 1, Len(Head(labels)))
    ELSE extract_label(Tail(labels), prefix)

EpicPrefix == <<"e", "p", "i", "c", ":">>

PriorityPrefix == <<"p", "r", "i", "o", "r", "i", "t", "y", ":">>

StatusPrefix == <<"s", "t", "a", "t", "u", "s", ":">>

TypePrefix == <<"t", "y", "p", "e", ":">>

\* The structured record fetch_issue builds from what `gh issue view` returns.
Structured(raw) ==
    [acceptance_criteria |-> parse_acceptance_criteria(raw.body),
     epic |-> extract_label(raw.labels, EpicPrefix),
     priority |-> extract_label(raw.labels, PriorityPrefix),
     status |-> extract_label(raw.labels, StatusPrefix),
     type |-> extract_label(raw.labels, TypePrefix),
     assignees |-> raw.assignees,
     state |-> raw.state]

\* Python's `not s` for s None or a string.
Falsy(s) == s = Absent \/ s = << >>

Warning(name, detail) == [warning |-> name, detail |-> detail]

WarnIf(cond, name, detail) == IF cond THEN <<Warning(name, detail)>> ELSE << >>

\* validate_issue: (is_valid, warnings)
IsValidWithoutAssignee(structured_issue) ==
    structured_issue.state = "OPEN" /\ structured_issue.assignees = << >>

IsValid(structured_issue) == structured_issue.state = "OPEN"

WarningsPriorityBeforeEpic(structured_issue) ==
    WarnIf(structured_issue.state = "CLOSED", "closed", << >>)
    \o WarnIf(structured_issue.assignees # << >>, "assigned", structured_issue.assignees)
    \o WarnIf(structured_issue.acceptance_criteria = << >>, "no-criteria", << >>)
    \o WarnIf(Falsy(structured_issue.priority), "no-priority", << >>)
    \o WarnIf(Falsy(structured_issue.epic), "no-epic", << >>)

Warnings(structured_issue) ==
    WarnIf(structured_issue.state = "CLOSED", "closed", << >>)
    \o WarnIf(structured_issue.assignees # << >>, "assigned", structured_issue.assignees)
    \o WarnIf(structured_issue.acceptance_criteria = << >>, "no-criteria", << >>)
    \o WarnIf(Falsy(structured_issue.epic), "no-epic", << >>)
    \o WarnIf(Falsy(structured_issue.priority), "no-priority", << >>)

validate_issue(structured_issue) ==
    [is_valid |-> IsValid(structured_issue), warnings |-> Warnings(structured_issue)]

\* fetch_issue(): lines 63-99, called from main() at line 144.
FetchIssue ==
    /\ command = "fetch_issue"
    /\ cliPc = "start"
    /\ \E ok \in BOOLEAN :
        /\ queries' = Append(queries, [query |-> "view", ok |-> ok])
        /\ IF ~ok
           THEN \* lines 75-81: the error is reported and the process exits 1
                /\ cliStderr' = Append(cliStderr, [message |-> "fetch-error", detail |-> << >>])
                /\ cliExit' = 1
                /\ cliPc' = "exited"
                /\ UNCHANGED <<structured>>
           ELSE /\ structured' = Structured(trackerIssue)
                /\ cliPc' = "validate"
                /\ UNCHANGED <<cliStderr, cliExit>>
    /\ UNCHANGED <<command, tierIssues, createdAt, trackerIssue, priorityArg, tier, issue,
                   validation, cliStdout, prevRun>>

\* The exit status main() ends with after validation (lines 157-159).
FetchExitInvalidIsTwo(is_valid) == IF ~is_valid THEN 2 ELSE 0

FetchExit(is_valid) == IF ~is_valid THEN 1 ELSE 0

\* What main() prints to stdout (line 155), before it looks at is_valid.
EmittedOnlyIfValid(record, is_valid) == IF is_valid THEN <<record>> ELSE << >>

Emitted(record, is_valid) == <<record>>

\* main(), lines 146-159: validate, warnings to stderr, the record to stdout.
ValidateAndEmit ==
    /\ command = "fetch_issue"
    /\ cliPc = "validate"
    /\ validation' = validate_issue(structured)
    /\ cliStderr' = cliStderr \o
            [k \in 1..Len(validation'.warnings) |->
                [message |-> validation'.warnings[k].warning,
                 detail |-> validation'.warnings[k].detail]]
    /\ cliStdout' = cliStdout \o Emitted(structured, validation'.is_valid)
    /\ cliExit' = FetchExit(validation'.is_valid)
    /\ cliPc' = "exited"
    /\ UNCHANGED <<command, tierIssues, createdAt, trackerIssue, priorityArg, tier, issue,
                   queries, structured, prevRun>>

--------------------------------------------------------------------------
(* select_issue.py *)

PRIORITY_ORDER == <<"critical", "high", "medium", "low">>

NoIssue == 0

\* --jq sort_by(.createdAt): the issues of a set, oldest first.
RECURSIVE SortByCreatedAt(_, _)
SortByCreatedAt(issues, created) ==
    IF issues = {} THEN << >>
    ELSE LET first == CHOOSE n \in issues : \A m \in issues : created[n] <= created[m]
         IN  <<first>> \o SortByCreatedAt(issues \ {first}, created)

\* What `gh issue list` answers for the labels of a tier.
ListIssues(priority) == SortByCreatedAt(tierIssues[priority], createdAt)

\* select_next_issue, lines 51-65: the first issue of the answer; None when
\* the call failed or the answer is empty.
select_next_issue(priority, ok) ==
    IF ~ok THEN NoIssue
    ELSE IF ListIssues(priority) # << >> THEN ListIssues(priority)[1]
    ELSE NoIssue

\* main(), line 120: `if args.priority:`.
ExplicitPriorityIgnored == FALSE

ExplicitPriority == priorityArg # None

\* One call of select_next_issue: the only one when --priority is given
\* (lines 121-129), else one round of select_with_fallback's loop (78-89).
SelectNextIssue ==
    /\ command = "select_issue"
    /\ cliPc = "start"
    /\ LET priority == IF ExplicitPriority THEN priorityArg ELSE PRIORITY_ORDER[tier]
       IN  \E ok \in BOOLEAN :
            LET found == select_next_issue(priority, ok)
            IN  /\ queries' = Append(queries, [query |-> priority, ok |-> ok])
                /\ cliStderr' = IF ok THEN cliStderr
                                ELSE Append(cliStderr,
                                            [message |-> "query-error", detail |-> << >>])
                /\ IF ~ExplicitPriority /\ found = NoIssue /\ tier < Len(PRIORITY_ORDER)
                   THEN /\ tier' = tier + 1
                        /\ UNCHANGED <<issue, cliPc>>
                   ELSE /\ issue' = found
                        /\ cliPc' = "report"
                        /\ UNCHANGED tier
    /\ UNCHANGED <<command, tierIssues, createdAt, trackerIssue, priorityArg, structured,
                   validation, cliStdout, cliExit, prevRun>>

\* The filters the "No issues found matching" message names (lines 162-167);
\* no --epic is given.
FiltersStatusOnly == <<"status">>

Filters == IF priorityArg # None THEN <<"priority", "status">> ELSE <<"status">>

\* main(), lines 139-170: the selected number on stdout and exit 0, or the
\* message and exit 1.
SelectReport ==
    /\ command = "select_issue"
    /\ cliPc = "report"
    /\ IF issue # NoIssue
       THEN /\ cliStdout' = Append(cliStdout, issue)
            /\ cliStderr' = Append(cliStderr, [message |-> "selected", detail |-> << >>])
            /\ cliExit' = 0
       ELSE /\ cliStderr' = Append(cliStderr, [message |-> "no-issues", detail |-> Filters])
            /\ cliExit' = 1
            /\ UNCHANGED cliStdout
    /\ cliPc' = "exited"
    /\ UNCHANGED <<command, tierIssues, createdAt, trackerIssue, priorityArg, tier, issue,
                   queries, structured, validation, prevRun>>

--------------------------------------------------------------------------
(* The worlds the two commands are run in *)

\* Some tracker call of the run failed.
TransportFailure == \E k \in DOMAIN queries : ~queries[k].ok

\* What a finished run of a command came to.
Outcome ==
    IF command = "fetch_issue"
    THEN IF TransportFailure THEN "nothing-fetched"
         ELSE IF validation.is_valid THEN "valid" ELSE "invalid"
    ELSE IF issue # NoIssue THEN "selected"
    ELSE IF priorityArg # None THEN "explicit-empty"
    ELSE "cascade-exhausted"

NoPrev == [command |-> None, outcome |-> None, transport |-> FALSE, exit |-> 0]

NoValidation == [is_valid |-> FALSE, warnings |-> << >>]

NoRaw == [state |-> None, assignees |-> << >>, labels |-> << >>, body |-> << >>]

SelIssues == 1..MaxSelIssue

\* Every way to give each open issue one priority label or none.
TierWorlds ==
    {[p \in {PRIORITY_ORDER[k] : k \in DOMAIN PRIORITY_ORDER} |->
        {n \in SelIssues : a[n] = p}] :
     a \in [SelIssues -> {PRIORITY_ORDER[k] : k \in DOMAIN PRIORITY_ORDER} \cup {None}]}

\* Creation times: any order of the issues.
CreatedAts == {c \in [SelIssues -> SelIssues] : \A n, m \in SelIssues : c[n] = c[m] => n = m}

EpicAuth == EpicPrefix \o <<"a", "u", "t", "h">>

PriorityHigh == PriorityPrefix \o <<"h", "i", "g", "h">>

FetchLabelLists ==
    { << >>, <<EpicAuth>>, <<PriorityHigh>>, <<EpicAuth, PriorityHigh>>, <<EpicPrefix>> }

CriteriaHeading ==
    <<"#", "#", " ", "A", "c", "c", "e", "p", "t", "a", "n", "c", "e", " ",
      "C", "r", "i", "t", "e", "r", "i", "a">>

OpenBox == <<"-", " ", "[", " ", "]", " ", "a">>

DoneBox == <<"-", " ", "[", "x", "]", " ", "b">>

NextHeading == <<"#", "#", " ", "N", "e", "x", "t">>

Bodies ==
    { << >>,
      <<NextHeading, OpenBox>>,
      <<CriteriaHeading, OpenBox, DoneBox, NextHeading>> }

\* The lines the bodies of the parser's inputs are made of.
UpperBox ==
    <<" ", " ", "-", "[", "X", "]", " ", " ", "c", " ">>

BlankLine == <<" ">>

Prose == <<"n", "o", "t", "e">>

PhraseProse ==
    <<"a", "c", "c", "e", "p", "t", "a", "n", "c", "e", " ", "c", "r",
      "i", "t", "e", "r", "i", "a">>

PhraseBox ==
    <<"-", " ", "[", " ", "]", " ", "A", "c", "c", "e", "p", "t", "a",
      "n", "c", "e", " ", "C", "r", "i", "t", "e", "r", "i", "a">>

BodyLines ==
    {CriteriaHeading, OpenBox, DoneBox, UpperBox, NextHeading, BlankLine, Prose,
     PhraseProse, PhraseBox}

\* Every body of at most MaxLines lines.
ParserBodies == UNION {[1..n -> BodyLines] : n \in 0..MaxLines}

\* The labels the label lists of the codec's inputs are made of.
EpicUi == EpicPrefix \o <<"u", "i">>

NotEpic == <<"x">> \o EpicPrefix \o <<"z">>

LabelNames == {EpicAuth, EpicUi, EpicPrefix, PriorityHigh, NotEpic}

\* Every label list of at most MaxLabels labels.
CodecLabelLists == UNION {[1..n -> LabelNames] : n \in 0..MaxLabels}

\* The issues fetch_issue.py is given to take apart: any body with no labels,
\* or any label list with no body.
ParsedIssues ==
    {[state |-> "OPEN", assignees |-> << >>, labels |-> << >>, body |-> b] :
        b \in ParserBodies}
    \cup {[state |-> "OPEN", assignees |-> << >>, labels |-> l, body |-> << >>] :
        l \in CodecLabelLists}

RawIssues ==
    [state : {"OPEN", "CLOSED"},
     assignees : {<< >>, <<"alice">>},
     labels : FetchLabelLists,
     body : Bodies]

CliWorld(c, tiers, created, raw, p) ==
    /\ c \in {"select_issue", "fetch_issue"}
    /\ IF c = "select_issue"
       THEN /\ tiers \in TierWorlds
            /\ created \in CreatedAts
            /\ p \in {PRIORITY_ORDER[k] : k \in DOMAIN PRIORITY_ORDER} \cup {None}
            /\ raw = NoRaw
       ELSE /\ tiers = [q \in {PRIORITY_ORDER[k] : k \in DOMAIN PRIORITY_ORDER} |-> {}]
            /\ created = [n \in SelIssues |-> n]
            /\ p = None
            /\ raw \in RawIssues

CliProcessStart(cpc, t, i, q, s, v, out, err, ex) ==
    /\ cpc = "start"
    /\ t = 1
    /\ i = NoIssue
    /\ q = << >>
    /\ s = Structured(NoRaw)
    /\ v = NoValidation
    /\ out = << >>
    /\ err = << >>
    /\ ex = "running"

\* The command is run again on the same tracker after a run has exited, the
\* selector with any --priority or none.
Reinvoke ==
    /\ cliPc = "exited"
    /\ prevRun = NoPrev
    /\ prevRun' = [command |-> command, outcome |-> Outcome,
                   transport |-> TransportFailure, exit |-> cliExit]
    /\ UNCHANGED <<command, tierIssues, createdAt, trackerIssue>>
    /\ CliWorld(command, tierIssues, createdAt, trackerIssue, priorityArg')
    /\ CliProcessStart(cliPc', tier', issue', queries', structured', validation',
                       cliStdout', cliStderr', cliExit')

\* No command of the two is running.
CliIdle ==
    /\ command = None
    /\ tierIssues = [q \in {PRIORITY_ORDER[k] : k \in DOMAIN PRIORITY_ORDER} |-> {}]
    /\ createdAt = [n \in SelIssues |-> n]
    /\ trackerIssue = NoRaw
    /\ priorityArg = None
    /\ cliPc = "idle"
    /\ tier = 1
    /\ issue = NoIssue
    /\ queries = << >>
    /\ structured = Structured(NoRaw)
    /\ validation = NoValidation
    /\ cliStdout = << >>
    /\ cliStderr = << >>
    /\ cliExit = "running"
    /\ prevRun = NoPrev

--------------------------------------------------------------------------
(* The worlds the reconciler is run in *)

\* Label lists of an issue: none, one status label, a status label after
\* another label, two status labels.
LabelLists ==
    { << >>,
      <<"status:backlog">>,
      <<"type:bug", "status:in-progress">>,
      <<"status:done", "status:backlog">> }

\* Ten items of other projects, then the item of the project.
ManyProjects ==
    [k \in 1..(ItemsPageSize + 1) |->
        IF k <= ItemsPageSize THEN OtherProject(k) ELSE PROJECT_NUMBER]

\* The projects an issue is attached to, in the order the board lists them.
ProjectLists ==
    { << >>,
      <<OtherProject(1)>>,
      <<OtherProject(1), PROJECT_NUMBER>>,
      ManyProjects }

Field(options) == [id |-> "PVTSSF_status", options |-> options]

\* The board's Status field: absent, GitHub's default options, the other
\* spelling of each alias, every alias at once, and a field without Done.
StatusFields ==
    { NoField,
      Field({"Todo", "In Progress", "Done"}),
      Field({"Backlog", "In progress", "Done"}),
      Field(OptionNames),
      Field({"Backlog"}) }

ProgramStart ==
    /\ pc = "start"
    /\ status_field = NoField
    /\ issue_number = 0
    /\ status_label = None
    /\ item_id = NoItem
    /\ updated = 0
    /\ skipped = 0
    /\ errors = 0
    /\ calls = << >>
    /\ stdout = << >>
    /\ exitStatus = "running"

\* Every tracker of MaxIssue issues over the lists above, every range in it.
InitBounded ==
    /\ issueLabels \in [1..MaxIssue -> LabelLists]
    /\ \E p \in [1..MaxIssue -> ProjectLists] :
          boardItems = [n \in 1..MaxIssue |-> Items(p[n])]
    /\ statusField \in StatusFields
    /\ START_ISSUE \in 1..MaxIssue
    /\ END_ISSUE \in 0..MaxIssue

\* The five issues of the specification's end-to-end example: 1 backlog,
\* 2 done, 3 without a status label, 4 labelled but on no board, 5 any.
EndToEndLabels ==
    << <<"status:backlog">>, <<"status:done">>, <<"type:bug">>,
       <<"status:in-progress">>, <<"status:done">> >>

EndToEndProjects ==
    << <<PROJECT_NUMBER>>, <<PROJECT_NUMBER>>, <<PROJECT_NUMBER>>, << >>,
       <<PROJECT_NUMBER>> >>

InitEndToEnd ==
    /\ issueLabels = EndToEndLabels
    /\ boardItems = [n \in 1..Len(EndToEndProjects) |-> Items(EndToEndProjects[n])]
    /\ statusField = Field({"Todo", "In Progress", "Done"})
    /\ START_ISSUE = 1
    /\ END_ISSUE = Len(EndToEndLabels)

Init ==
    /\ InitBounded \/ InitEndToEnd
    /\ ProgramStart
    /\ firstRun = NoRun
    /\ CliIdle

Next ==
    \/ GetStatusFieldInfo
    \/ GetIssueLabels
    \/ GetProjectItemId
    \/ UpdateIssueStatus
    \/ PrintSummary

Spec == Init /\ [][Next]_vars

\* main() is sequential code: whenever it has a next step it takes it, every
\* external call returning or failing.
SpecFair == Init /\ [][Next]_vars /\ WF_vars(Next)

\* Another actor of the tracker changes the labels of an issue while the
\* run is in progress.
EditLabels ==
    /\ pc \in {"labels", "item", "update"}
    /\ \E n \in DOMAIN issueLabels : \E labels \in LabelLists :
          /\ labels # issueLabels[n]
          /\ issueLabels' = [issueLabels EXCEPT ![n] = labels]
    /\ UNCHANGED <<boardItems, statusField, START_ISSUE, END_ISSUE, pc, status_field,
                   issue_number, status_label, item_id, updated, skipped, errors, calls,
                   stdout, exitStatus, firstRun>>
    /\ UNCHANGED cliVars

InitConcurrent ==
    /\ InitBounded
    /\ ProgramStart
    /\ firstRun = NoRun
    /\ CliIdle

NextConcurrent == Next \/ EditLabels

SpecConcurrent == InitConcurrent /\ [][NextConcurrent]_vars

\* The script is run again with the same arguments once a run has printed its
\* summary; what the first run did is kept for comparison.
Rerun ==
    /\ pc = "done"
    /\ ~firstRun.ran
    /\ firstRun' = [ran |-> TRUE, summary |-> Summary, board |-> boardItems,
                    calls |-> calls, stdout |-> stdout]
    /\ pc' = "start"
    /\ status_field' = NoField
    /\ issue_number' = 0
    /\ status_label' = None
    /\ item_id' = NoItem
    /\ updated' = 0
    /\ skipped' = 0
    /\ errors' = 0
    /\ calls' = << >>
    /\ stdout' = << >>
    /\ exitStatus' = "running"
    /\ UNCHANGED <<world, boardItems>>
    /\ UNCHANGED cliVars

NextTwice == Next \/ Rerun

SpecTwice == Init /\ [][NextTwice]_vars

\* update_status.py does not run.
ReconcilerIdle ==
    /\ issueLabels = << >>
    /\ boardItems = << >>
    /\ statusField = NoField
    /\ START_ISSUE = 1
    /\ END_ISSUE = 0
    /\ pc = "idle"
    /\ status_field = NoField
    /\ issue_number = 0
    /\ status_label = None
    /\ item_id = NoItem
    /\ updated = 0
    /\ skipped = 0
    /\ errors = 0
    /\ calls = << >>
    /\ stdout = << >>
    /\ exitStatus = "running"
    /\ firstRun = NoRun

InitCli ==
    /\ ReconcilerIdle
    /\ CliWorld(command, tierIssues, createdAt, trackerIssue, priorityArg)
    /\ CliProcessStart(cliPc, tier, issue, queries, structured, validation,
                       cliStdout, cliStderr, cliExit)
    /\ prevRun = NoPrev

NextCli ==
    \/ (SelectNextIssue /\ UNCHANGED reconcilerVars)
    \/ (SelectReport /\ UNCHANGED reconcilerVars)
    \/ (FetchIssue /\ UNCHANGED reconcilerVars)
    \/ (ValidateAndEmit /\ UNCHANGED reconcilerVars)
    \/ (Reinvoke /\ UNCHANGED reconcilerVars)

SpecCli == InitCli /\ [][NextCli]_vars

\* fetch_issue.py run once on each of the issues to take apart.
InitFetch ==
    /\ ReconcilerIdle
    /\ command = "fetch_issue"
    /\ trackerIssue \in ParsedIssues
    /\ tierIssues = [q \in {PRIORITY_ORDER[k] : k \in DOMAIN PRIORITY_ORDER} |-> {}]
    /\ createdAt = [n \in SelIssues |-> n]
    /\ priorityArg = None
    /\ CliProcessStart(cliPc, tier, issue, queries, structured, validation,
                       cliStdout, cliStderr, cliExit)
    /\ prevRun = NoPrev

NextFetch ==
    \/ (FetchIssue /\ UNCHANGED reconcilerVars)
    \/ (ValidateAndEmit /\ UNCHANGED reconcilerVars)

SpecFetch == InitFetch /\ [][NextFetch]_vars

--------------------------------------------------------------------------
(* What a run did, read from its calls and its output *)

IssueRange == START_ISSUE..END_ISSUE

CallOk(name, n) == \E k \in DOMAIN calls : calls[k] = Call(name, n, TRUE)

CallFailed(name, n) == \E k \in DOMAIN calls : calls[k] = Call(name, n, FALSE)

\* Some external call made for issue n failed.
SomeCallFailed(n) ==
    \E name \in {"labels", "item", "update"} : CallFailed(name, n)

NoCallFailed == \A k \in DOMAIN calls : calls[k].ok

\* The lines printed about issue n.
LinesOf(n) == {stdout[k].line : k \in {j \in DOMAIN stdout : stdout[j].issue = n}}

\* The counter a printed line goes with.
OutcomeOfLine(line) ==
    CASE line = "updated" -> "updated"
      [] line = "skipping" -> "skipped"
      [] OTHER -> "error"

OutcomesOf(n) == {OutcomeOfLine(l) : l \in LinesOf(n)}

HasStatusLabel(n) ==
    \E k \in DOMAIN issueLabels[n] : issueLabels[n][k] \in StatusLabels

\* The issue's status label: the first recognised one of its labels.
StatusLabelOf(n) ==
    LET ks == {k \in DOMAIN issueLabels[n] : issueLabels[n][k] \in StatusLabels}
    IN  issueLabels[n][CHOOSE k \in ks : \A j \in ks : k <= j]

\* The places of the issue's items of the configured project.
ProjectItemsOf(n) ==
    {k \in DOMAIN boardItems[n] : boardItems[n][k].project = PROJECT_NUMBER}

\* The option the board holds for a status label, by the alias lists
\* (Todo, Backlog), (In Progress, In progress), (Done); None when it has none.
MappedOption(label) ==
    LET aliases == CASE label = "status:backlog" -> <<"Todo", "Backlog">>
                     [] label = "status:in-progress" -> <<"In Progress", "In progress">>
                     [] label = "status:done" -> <<"Done">>
        present == {k \in DOMAIN aliases : aliases[k] \in statusField.options}
    IN  IF present = {} THEN None
        ELSE OptionId(aliases[CHOOSE k \in present : \A j \in present : k <= j])

\* The outcome of issue n by its own labels, items and calls alone.
OwnOutcome(n) ==
    IF SomeCallFailed(n) THEN "error"
    ELSE IF ~HasStatusLabel(n) THEN "skipped"
    ELSE IF get_project_item_id(n, PROJECT_NUMBER) = NoItem THEN "error"
    ELSE IF MappedOption(StatusLabelOf(n)) = None THEN "error"
    ELSE "updated"

--------------------------------------------------------------------------
(* The claims *)

\* The step of the run in which a call made for an issue fails.
CallFails ==
    /\ Len(calls') = Len(calls) + 1
    /\ calls'[Len(calls')].issue # 0
    /\ ~calls'[Len(calls')].ok

C1_FailureCountsOnce ==
    CallFails => /\ errors' = errors + 1
                 /\ updated' = updated
                 /\ skipped' = skipped
                 /\ issue_number' = issue_number + 1
                 /\ pc' = "labels"

C1_LaterIssuesIndependent ==
    pc = "done" =>
        \A n \in IssueRange :
            /\ \E ok \in BOOLEAN : Call("labels", n, ok) \in {calls[k] : k \in DOMAIN calls}
            /\ OutcomesOf(n) = {OwnOutcome(n)}

\* C1: a failed call for issue N adds exactly one to the error count and the
\* loop goes on; when the run ends every issue of the range was attempted
\* (its labels were asked for) and the outcome printed for each issue is the
\* one its own labels, items and calls give, whatever failed before it.
C1_FaultIsolation == [][C1_FailureCountsOnce]_vars /\ []C1_LaterIssuesIndependent

\* C1 witness: a finished run in which a call for an issue failed and a
\* later issue was updated.
C1_Witness ==
    /\ pc = "done"
    /\ \E n, m \in IssueRange :
          /\ n < m
          /\ SomeCallFailed(n)
          /\ OutcomesOf(m) = {"updated"}

UpdatedIssues ==
    {n \in IssueRange :
        /\ CallOk("labels", n)
        /\ HasStatusLabel(n)
        /\ ProjectItemsOf(n) # {}
        /\ MappedOption(StatusLabelOf(n)) # None
        /\ CallOk("update", n)}

SkippedIssues == {n \in IssueRange : CallOk("labels", n) /\ ~HasStatusLabel(n)}

ErrorIssues == IssueRange \ (UpdatedIssues \cup SkippedIssues)

\* The end-to-end example: the five issues, and only issue 5's label fetch fails.
EndToEndRun ==
    /\ issueLabels = EndToEndLabels
    /\ END_ISSUE = Len(EndToEndLabels)
    /\ {k \in DOMAIN calls : ~calls[k].ok} # {}
    /\ \A k \in DOMAIN calls : ~calls[k].ok => calls[k] = Call("labels", 5, FALSE)

\* C2: the summary of a finished run counts as updated the issues whose label
\* fetch succeeded, that carry a status label, have an item in the project,
\* have a resolvable option and whose update call succeeded; as skipped those
\* whose label fetch succeeded and that carry no status label; as errors all
\* the others. The end-to-end example yields {updated 2, skipped 1, errors 2}.
C2_Summary ==
    pc = "done" =>
        /\ Summary = [updated |-> Cardinality(UpdatedIssues),
                      skipped |-> Cardinality(SkippedIssues),
                      errors |-> Cardinality(ErrorIssues)]
        /\ EndToEndRun => Summary = [updated |-> 2, skipped |-> 1, errors |-> 2]

\* C2 witness: the end-to-end example has run to its summary.
C2_Witness ==
    /\ pc = "done"
    /\ EndToEndRun
    /\ Summary = [updated |-> 2, skipped |-> 1, errors |-> 2]

\* C3: a second run over the same range in which every call ends as it did in
\* the first leaves the board as the first run left it and prints the same
\* summary.
C3_Idempotent ==
    (pc = "done" /\ firstRun.ran /\ calls = firstRun.calls) =>
        /\ boardItems = firstRun.board
        /\ Summary = firstRun.summary

\* C3 witness: a second run has ended as the first did, both having updated
\* an issue and both having met an error.
C3_Witness ==
    /\ pc = "done"
    /\ firstRun.ran
    /\ calls = firstRun.calls
    /\ updated > 0
    /\ errors > 0

\* C4: after a run in which no call failed, every issue of the range that
\* carries a status label, has an item in the project and whose label resolves
\* to an option has that item's Status equal to the option.
C4_Converged ==
    (pc = "done" /\ NoCallFailed) =>
        \A n \in IssueRange :
            (HasStatusLabel(n) /\ MappedOption(StatusLabelOf(n)) # None) =>
                \A k \in ProjectItemsOf(n) :
                    boardItems[n][k].status = MappedOption(StatusLabelOf(n))

--------------------------------------------------------------------------
(* The selector and the fetch/validate command *)

SelectorReturned == command = "select_issue" /\ cliPc \in {"report", "exited"}

CliExited == cliPc = "exited"

Oldest(S) == CHOOSE n \in S : \A m \in S : createdAt[n] <= createdAt[m]

NonEmptyTiers == {k \in DOMAIN PRIORITY_ORDER : tierIssues[PRIORITY_ORDER[k]] # {}}

FirstNonEmptyTier == CHOOSE k \in NonEmptyTiers : \A j \in NonEmptyTiers : k <= j

\* C5: the cascade queries critical, high, medium, low in this order, stops at
\* the first tier that has a candidate and returns that tier's oldest issue
\* without a query for any later tier; it returns nothing only after all four
\* tiers were queried and were empty.
C5_Cascade ==
    (SelectorReturned /\ priorityArg = None) =>
        /\ \A k \in DOMAIN queries : queries[k].query = PRIORITY_ORDER[k]
        /\ IF NonEmptyTiers # {}
           THEN /\ Len(queries) = FirstNonEmptyTier
                /\ issue = Oldest(tierIssues[PRIORITY_ORDER[FirstNonEmptyTier]])
           ELSE /\ Len(queries) = Len(PRIORITY_ORDER)
                /\ issue = NoIssue

\* C6: with an explicit priority p exactly one query is made, for tier p, no
\* other tier is ever queried, and an empty tier p gives no issue.
C6_ExplicitBypass ==
    (command = "select_issue" /\ priorityArg # None) =>
        /\ \A k \in DOMAIN queries : queries[k].query = priorityArg
        /\ Len(queries) <= 1
        /\ SelectorReturned =>
            /\ Len(queries) = 1
            /\ tierIssues[priorityArg] = {} => issue = NoIssue
        /\ (CliExited /\ tierIssues[priorityArg] = {}) => cliStdout = << >>

C6_Witness ==
    /\ CliExited
    /\ command = "select_issue"
    /\ priorityArg = "low"
    /\ tierIssues["low"] = {}
    /\ tierIssues["critical"] # {}
    /\ issue = NoIssue
    /\ Len(queries) = 1
    /\ queries[1].ok

BothRunsExited == CliExited /\ prevRun # NoPrev

EmptyOutcomes == {"explicit-empty", "cascade-exhausted"}

\* C7 as stated: a run with an explicit priority whose tier is empty and a run
\* without a priority whose four tiers are empty never end with the same exit
\* status.
C7_DistinctExitStatus ==
    (/\ BothRunsExited
     /\ ~TransportFailure
     /\ ~prevRun.transport
     /\ {prevRun.outcome, Outcome} = EmptyOutcomes) => prevRun.exit # cliExit

ExplicitEmpty == command = "select_issue" /\ priorityArg # None /\ tierIssues[priorityArg] = {}

CascadeExhausted ==
    /\ command = "select_issue"
    /\ priorityArg = None
    /\ NonEmptyTiers = {}

\* C7, amended: both runs end with exit status 1 and print nothing to the
\* primary output; they differ in the diagnostic message, which names the
\* priority filter exactly when a priority was given.
C7_SameExitDifferentMessage ==
    (CliExited /\ (ExplicitEmpty \/ CascadeExhausted)) =>
        /\ cliExit = 1
        /\ cliStdout = << >>
        /\ cliStderr[Len(cliStderr)] =
              [message |-> "no-issues",
               detail |-> IF ExplicitEmpty THEN <<"priority", "status">> ELSE <<"status">>]

C7_Witness ==
    /\ BothRunsExited
    /\ CascadeExhausted
    /\ ~TransportFailure
    /\ Len(queries) = Len(PRIORITY_ORDER)
    /\ prevRun.outcome = "explicit-empty"
    /\ ~prevRun.transport
    /\ prevRun.exit = 1
    /\ cliExit = 1

\* The failure a run ended in, if any, of the three the exit status is to tell
\* apart.
FailureKind(outcome, transport) ==
    IF transport THEN "transport failure"
    ELSE IF outcome \in EmptyOutcomes THEN "found nothing"
    ELSE IF outcome = "invalid" THEN "found invalid"
    ELSE "no failure"

\* C8 as stated: runs that end in different failures of the three (nothing
\* found, found but invalid, transport failure) end with different exit
\* statuses.
C8_PairwiseDistinctExitStatus ==
    (/\ BothRunsExited
     /\ FailureKind(Outcome, TransportFailure) # "no failure"
     /\ FailureKind(prevRun.outcome, prevRun.transport) # "no failure"
     /\ FailureKind(Outcome, TransportFailure)
            # FailureKind(prevRun.outcome, prevRun.transport)) => prevRun.exit # cliExit

FoundNothing == command = "select_issue" /\ issue = NoIssue

FoundInvalid == command = "fetch_issue" /\ ~TransportFailure /\ trackerIssue.state # "OPEN"

FetchTransportFailure == command = "fetch_issue" /\ TransportFailure

\* C8, amended: a selector run that selects no issue, a fetch of an issue that
\* is invalid and a fetch whose tracker call fails all end with the one exit
\* status 1; every other run ends with exit status 0.
C8_FailuresExitOne ==
    CliExited =>
        cliExit = IF FoundNothing \/ FoundInvalid \/ FetchTransportFailure THEN 1 ELSE 0

C8_Witness ==
    /\ BothRunsExited
    /\ FetchTransportFailure
    /\ cliExit = 1
    /\ prevRun.command = "fetch_issue"
    /\ prevRun.outcome = "invalid"
    /\ ~prevRun.transport
    /\ prevRun.exit = 1

--------------------------------------------------------------------------
\* C9: a failed external call, the status field fetch included, never ends the
\* run by an uncaught exception: it is counted and the run prints its summary.
C9_NoCrash ==
    (\E k \in DOMAIN calls : ~calls[k].ok) =>
        /\ pc # "crashed"
        /\ exitStatus # "running" => (pc = "done" /\ errors > 0)

FetchValidated == command = "fetch_issue" /\ CliExited /\ ~TransportFailure

\* C10: validation answers valid exactly when the issue's state is OPEN,
\* whatever its assignees, acceptance criteria, epic and priority are.
C10_ValidIffOpen ==
    FetchValidated => (validation.is_valid <=> trackerIssue.state = "OPEN")

C10_Witness ==
    /\ FetchValidated
    /\ trackerIssue.state = "OPEN"
    /\ trackerIssue.assignees # << >>
    /\ Len(validation.warnings) = 4
    /\ validation.is_valid

--------------------------------------------------------------------------
(* The validator's warnings *)

WarningOrder == <<"closed", "assigned", "no-criteria", "no-epic", "no-priority">>

\* The condition of each warning, read from the record that was validated.
WarningHolds(w) ==
    CASE w = "closed" -> structured.state = "CLOSED"
      [] w = "assigned" -> structured.assignees # << >>
      [] w = "no-criteria" -> structured.acceptance_criteria = << >>
      [] w = "no-epic" -> structured.epic \in {Absent, << >>}
      [] w = "no-priority" -> structured.priority \in {Absent, << >>}

WarningNames == [k \in 1..Len(validation.warnings) |-> validation.warnings[k].warning]

\* An issue with no assignees, no criteria, no epic and no priority.
BareIssue ==
    /\ structured.assignees = << >>
    /\ structured.acceptance_criteria = << >>
    /\ structured.epic = Absent
    /\ structured.priority = Absent

\* C11 as stated: the warnings are the conditions that hold, in the fixed
\* order, and an open issue with no assignees, no criteria, no epic and no
\* priority gets exactly four warnings, a closed one five.
C11_FourAndFiveWarnings ==
    FetchValidated =>
        /\ WarningNames = SelectSeq(WarningOrder, WarningHolds)
        /\ (BareIssue /\ structured.state = "OPEN") => Len(validation.warnings) = 4
        /\ (BareIssue /\ structured.state = "CLOSED") => Len(validation.warnings) = 5

\* C11, amended: the warnings are exactly the conditions that hold of (closed,
\* assigned, no criteria, no epic, no priority), in this order, one each, the
\* assigned one listing the assignees; an open issue with no assignees, no
\* criteria, no epic and no priority gets exactly three warnings, a closed
\* one four.
C11_WarningsInOrder ==
    FetchValidated =>
        /\ WarningNames = SelectSeq(WarningOrder, WarningHolds)
        /\ \A k \in DOMAIN validation.warnings :
              validation.warnings[k].detail =
                  IF validation.warnings[k].warning = "assigned"
                  THEN structured.assignees ELSE << >>
        /\ (BareIssue /\ structured.state = "OPEN") =>
              WarningNames = <<"no-criteria", "no-epic", "no-priority">>
        /\ (BareIssue /\ structured.state = "CLOSED") =>
              WarningNames = <<"closed", "no-criteria", "no-epic", "no-priority">>

C11_Witness ==
    /\ FetchValidated
    /\ BareIssue
    /\ structured.state = "CLOSED"
    /\ Len(validation.warnings) = 4
    /\ cliStderr = <<[message |-> "closed", detail |-> << >>],
                     [message |-> "no-criteria", detail |-> << >>],
                     [message |-> "no-epic", detail |-> << >>],
                     [message |-> "no-priority", detail |-> << >>]>>

--------------------------------------------------------------------------
(* The criteria parser, read line by line from the body *)

\* What each line of BodyLines is: a line holding the words acceptance
\* criteria, a heading line, a checkbox line and the criterion it stands for.
IsPhraseLine(line) == line \in {CriteriaHeading, PhraseProse, PhraseBox}

IsHeadingLine(line) == line \in {CriteriaHeading, NextHeading}

MatchesCheckboxPattern(line) == line \in {OpenBox, DoneBox, UpperBox, PhraseBox}

BoxMeaning(line) ==
    CASE line = OpenBox -> [checked |-> FALSE, text |-> <<"a">>]
      [] line = DoneBox -> [checked |-> TRUE, text |-> <<"b">>]
      [] line = UpperBox -> [checked |-> TRUE, text |-> <<"c">>]
      [] line = PhraseBox -> [checked |-> FALSE, text |-> SubSeq(PhraseBox, 7, Len(PhraseBox))]

\* The place of the first line holding the words, 0 if there is none.
FirstPhraseLine(body) ==
    LET ks == {k \in DOMAIN body : IsPhraseLine(body[k])}
    IN  IF ks = {} THEN 0 ELSE CHOOSE k \in ks : \A j \in ks : k <= j

\* The place of the first heading line after place h, Len(body) + 1 if none.
FirstHeadingAfter(body, h) ==
    LET ks == {k \in DOMAIN body : k > h /\ IsHeadingLine(body[k])}
    IN  IF ks = {} THEN Len(body) + 1 ELSE CHOOSE k \in ks : \A j \in ks : k <= j

\* The checkbox lines between the first acceptance criteria line and the
\* first heading line after it, as criteria, in order.
CriteriaOfRegion(body) ==
    IF FirstPhraseLine(body) = 0 THEN << >>
    ELSE LET h == FirstPhraseLine(body)
             boxes == SelectSeq(SubSeq(body, h + 1, FirstHeadingAfter(body, h) - 1),
                                MatchesCheckboxPattern)
         IN  [k \in 1..Len(boxes) |-> BoxMeaning(boxes[k])]

\* C12: the parser returns, in order of appearance, one criterion for every
\* checkbox line after the first acceptance criteria line and before the
\* first heading line that follows it, checked exactly for the markers x and
\* X, and nothing else; blank and other lines neither add a criterion nor
\* end the collection.
C12_CriteriaOfRegion ==
    FetchValidated => structured.acceptance_criteria = CriteriaOfRegion(trackerIssue.body)

--------------------------------------------------------------------------
(* The label codec, read label by label *)

\* What each label of LabelNames is under the prefix epic: and under the
\* prefix priority: : its suffix, or Absent when it does not start with it.
EpicSuffix(label) ==
    CASE label = EpicAuth -> <<"a", "u", "t", "h">>
      [] label = EpicUi -> <<"u", "i">>
      [] label = EpicPrefix -> << >>
      [] OTHER -> Absent

PrioritySuffix(label) ==
    IF label = PriorityHigh THEN <<"h", "i", "g", "h">> ELSE Absent

\* The places of the labels that start with epic: and with priority: .
EpicLabels == {k \in DOMAIN trackerIssue.labels : EpicSuffix(trackerIssue.labels[k]) # Absent}

PriorityLabels ==
    {k \in DOMAIN trackerIssue.labels : PrioritySuffix(trackerIssue.labels[k]) # Absent}

\* C13: the codec returns absent when no label starts with the prefix, and
\* else the exact suffix of the first label, in the order given, that starts
\* with it, never that of a later one.
C13_FirstLabelWins ==
    FetchValidated =>
        /\ EpicLabels = {} => structured.epic = Absent
        /\ \A k \in EpicLabels :
              (\A j \in EpicLabels : k <= j) =>
                  structured.epic = EpicSuffix(trackerIssue.labels[k])
        /\ PriorityLabels = {} => structured.priority = Absent
        /\ \A k \in PriorityLabels :
              (\A j \in PriorityLabels : k <= j) =>
                  structured.priority = PrioritySuffix(trackerIssue.labels[k])
        /\ structured.status = Absent
        /\ structured.type = Absent

C13_Witness ==
    /\ FetchValidated
    /\ trackerIssue.labels = <<NotEpic, EpicUi, EpicAuth>>
    /\ structured.epic = <<"u", "i">>
    /\ structured.priority = Absent

--------------------------------------------------------------------------
\* C14: every issue that was fetched, valid or not, has its whole structured
\* record on the primary output when the command has ended, and the command
\* ends with a non-zero exit status when the issue is not open.
C14_RecordEmitted ==
    FetchValidated =>
        /\ cliStdout = <<structured>>
        /\ cliStdout[1].state = trackerIssue.state
        /\ cliStdout[1].assignees = trackerIssue.assignees
        /\ DOMAIN cliStdout[1] =
              {"acceptance_criteria", "epic", "priority", "status", "type", "assignees",
               "state"}
        /\ trackerIssue.state # "OPEN" => cliExit # 0

C14_Witness ==
    /\ FetchValidated
    /\ trackerIssue.state = "CLOSED"
    /\ cliExit = 1
    /\ Len(cliStdout) = 1
    /\ cliStdout[1].state = "CLOSED"
    /\ cliStdout[1].acceptance_criteria # << >>

--------------------------------------------------------------------------
\* C15: the parser is done at the first line beginning with # that it meets
\* while collecting, a heading holding the words acceptance criteria
\* included, and never collects again: every criterion it returns comes from
\* a checkbox line between the first acceptance criteria line and the first
\* heading line after it.
C15_DoneAtFirstHeading ==
    FetchValidated =>
        LET criteria == structured.acceptance_criteria
            region == CriteriaOfRegion(trackerIssue.body)
        IN  /\ Len(criteria) <= Len(region)
            /\ \A k \in DOMAIN criteria : \E j \in DOMAIN region : criteria[k] = region[j]

--------------------------------------------------------------------------
\* C16: a failed tier query ends the selection: no query follows a failed
\* one, and a run with a failed query returns no issue.
C16_TransportFailureFatal ==
    command = "select_issue" =>
        /\ \A k \in DOMAIN queries : ~queries[k].ok => k = Len(queries)
        /\ (SelectorReturned /\ TransportFailure) => issue = NoIssue
        /\ (CliExited /\ TransportFailure) => (cliStdout = << >> /\ cliExit # 0)

--------------------------------------------------------------------------
(* The reconciler, issue by issue *)

\* The labels of the issue at hand were fetched and none is a status label.
LabelsWithoutStatusFetched ==
    /\ pc = "labels"
    /\ Len(calls') = Len(calls) + 1
    /\ calls'[Len(calls')] = Call("labels", issue_number, TRUE)
    /\ ~HasStatusLabel(issue_number)

C17_SkipStep ==
    LabelsWithoutStatusFetched =>
        /\ skipped' = skipped + 1
        /\ errors' = errors
        /\ updated' = updated
        /\ boardItems' = boardItems
        /\ issue_number' = issue_number + 1
        /\ pc' = "labels"

C17_NoCallForSkipped ==
    \A n \in IssueRange :
        (CallOk("labels", n) /\ ~HasStatusLabel(n)) =>
            /\ \A k \in DOMAIN calls :
                  calls[k].issue = n => calls[k] = Call("labels", n, TRUE)
            /\ n < issue_number => OutcomesOf(n) = {"skipped"}

\* C17: an issue whose fetched labels hold no status label is counted as
\* skipped and not as an error; no board-item lookup and no update call is
\* made for it and the board is as it was before the iteration.
C17_SkippedFrame == [][C17_SkipStep]_vars /\ []C17_NoCallForSkipped

C17_Witness ==
    /\ pc = "done"
    /\ skipped = 1
    /\ updated = 1
    /\ \E n \in IssueRange :
          /\ issueLabels[n] # << >>
          /\ ~HasStatusLabel(n)
          /\ OutcomesOf(n) = {"skipped"}

\* The update call for the issue at hand succeeds in this step.
UpdateCallSucceeds ==
    /\ Len(calls') > Len(calls)
    /\ calls'[Len(calls) + 1] = Call("update", issue_number, TRUE)

\* The first of the issue's items that is of the configured project.
FirstProjectItemOf(n) ==
    CHOOSE k \in ProjectItemsOf(n) : \A j \in ProjectItemsOf(n) : k <= j

C18_FirstMatchUpdated ==
    IF UpdateCallSucceeds
    THEN /\ ProjectItemsOf(issue_number) # {}
         /\ \A n \in DOMAIN boardItems : \A k \in DOMAIN boardItems[n] :
               /\ boardItems'[n][k].project = boardItems[n][k].project
               /\ <<n, k>> # <<issue_number, FirstProjectItemOf(issue_number)>> =>
                     boardItems'[n][k] = boardItems[n][k]
         /\ boardItems'[issue_number][FirstProjectItemOf(issue_number)].status
                = MappedOption(StatusLabelOf(issue_number))
    ELSE boardItems' = boardItems

C18_NoItemIsError ==
    \A n \in IssueRange :
        (/\ CallOk("labels", n)
         /\ HasStatusLabel(n)
         /\ CallOk("item", n)
         /\ ProjectItemsOf(n) = {}) =>
            /\ OutcomesOf(n) = {"error"}
            /\ ~CallOk("update", n)
            /\ ~CallFailed("update", n)

\* C18: an issue with a status label and no board item of the configured
\* project is counted as an error, never as skipped or updated, and no update
\* call is made for it; of an issue on several boards the item updated is the
\* first one of the configured project, and no other item changes.
C18_MissingItem == [][C18_FirstMatchUpdated]_vars /\ []C18_NoItemIsError

C18_Witness ==
    /\ pc = "done"
    /\ \E n \in IssueRange :
          /\ HasStatusLabel(n)
          /\ boardItems[n] # << >>
          /\ ProjectItemsOf(n) = {}
          /\ OutcomesOf(n) = {"error"}
          /\ CallOk("item", n)
    /\ \E n \in IssueRange :
          /\ Len(boardItems[n]) = 2
          /\ ProjectItemsOf(n) = {2}
          /\ boardItems[n][1].status = NoStatus
          /\ boardItems[n][2].status # NoStatus

\* The option a successful update call writes is the one the alias lists
\* give for the issue's status label.
C19_ResolvedOptionWritten ==
    UpdateCallSucceeds =>
        /\ MappedOption(StatusLabelOf(issue_number)) # None
        /\ boardItems'[item_id[1]][item_id[2]].status
              = MappedOption(StatusLabelOf(issue_number))

\* An update call, failed or not, was made for issue n.
UpdateCalled(n) == CallOk("update", n) \/ CallFailed("update", n)

C19_UnresolvedIsError ==
    /\ \A n \in IssueRange :
          (/\ n < issue_number
           /\ CallOk("labels", n)
           /\ HasStatusLabel(n)
           /\ MappedOption(StatusLabelOf(n)) = None) =>
              /\ OutcomesOf(n) = {"error"}
              /\ ~UpdateCalled(n)
              /\ (CallOk("item", n) /\ get_project_item_id(n, PROJECT_NUMBER) # NoItem)
                    => LinesOf(n) = {"no-option"}
    /\ pc = "done" => \A n \in IssueRange : CallOk("labels", n) \/ CallFailed("labels", n)

\* C19: status:backlog resolves to option Todo, else Backlog; status:in-progress
\* to In Progress, else In progress; status:done to Done. An issue whose label
\* has none of its options on the board is counted as an error, gets no update
\* call, and the run goes on with the next issue.
C19_AliasResolution == [][C19_ResolvedOptionWritten]_vars /\ []C19_UnresolvedIsError

C19_Witness ==
    /\ pc = "done"
    /\ statusField.options = {"Backlog"}
    /\ \E n, m \in IssueRange :
          /\ n < m
          /\ LinesOf(n) = {"no-option"}
          /\ HasStatusLabel(m)
          /\ StatusLabelOf(m) = "status:backlog"
          /\ OutcomesOf(m) = {"updated"}
          /\ \E k \in ProjectItemsOf(m) : boardItems[m][k].status = OptionId("Backlog")

\* The places of the calls made for an issue (the schema fetch is for none).
IssueCalls == {k \in DOMAIN calls : calls[k].issue # 0}

\* C20: the issues of the range are processed in ascending order, each once:
\* the calls of a later issue come after all calls of an earlier one, no call
\* is made twice for an issue (so at most one update call per issue), no call
\* follows a failed call for the same issue, and when the run has ended the
\* labels of every issue of the range were fetched exactly once.
C20_AscendingAtMostOnce ==
    /\ \A k \in IssueCalls : calls[k].issue \in IssueRange
    /\ \A j, k \in IssueCalls :
          j < k =>
              /\ calls[j].issue <= calls[k].issue
              /\ calls[j].issue = calls[k].issue => calls[j].call # calls[k].call
              /\ ~calls[j].ok => calls[j].issue < calls[k].issue
    /\ pc = "done" =>
          \A n \in IssueRange :
              Cardinality({k \in IssueCalls :
                              calls[k].issue = n /\ calls[k].call = "labels"}) = 1

C20_Witness ==
    /\ pc = "done"
    /\ START_ISSUE < END_ISSUE
    /\ CallFailed("update", START_ISSUE)
    /\ CallOk("update", END_ISSUE)
    /\ Cardinality({k \in IssueCalls : calls[k].call = "update"}) = 2

--------------------------------------------------------------------------
\* The places of the delays among the calls of the run.
Delays == {k \in DOMAIN calls : calls[k].call = "sleep"}

\* C21: a delay follows every successful update call at once, so before the
\* next issue's first call, and follows nothing else: no delay belongs to an
\* issue that was skipped or ended as an error, and the number of delays is
\* the updated count.
C21_DelayAfterEachUpdate ==
    /\ \A k \in DOMAIN calls :
          calls[k] = Call("update", calls[k].issue, TRUE) =>
              /\ k + 1 \in DOMAIN calls
              /\ calls[k + 1] = Sleep(calls[k].issue)
    /\ \A k \in Delays :
          /\ k > 1
          /\ calls[k - 1] = Call("update", calls[k].issue, TRUE)
          /\ OutcomesOf(calls[k].issue) = {"updated"}
    /\ Cardinality(Delays) = updated

C21_Witness ==
    /\ pc = "done"
    /\ updated = 2
    /\ skipped = 1
    /\ errors = 2
    /\ Cardinality(Delays) = 2

--------------------------------------------------------------------------
(* The reconciler while labels are edited by others *)

\* The labels of an issue are changed by another actor in this step.
LabelsEdited == issueLabels' # issueLabels

C22_WritesLabelRead ==
    /\ (pc = "labels" /\ pc' = "item") =>
          /\ HasStatusLabel(issue_number)
          /\ status_label' = StatusLabelOf(issue_number)
    /\ (pc = "item" /\ pc' = "update") => status_label' = status_label
    /\ UpdateCallSucceeds =>
          boardItems'[item_id[1]][item_id[2]].status = MappedOption(status_label)
    /\ LabelsEdited =>
          /\ boardItems' = boardItems
          /\ <<pc, issue_number, status_label, item_id>>'
                = <<pc, issue_number, status_label, item_id>>

\* C22: under concurrent label edits the run writes the option mapped from
\* the label it read in the issue's own iteration, and an edit of the labels
\* changes neither the board nor what the run has read; so a run can end
\* with no error and an issue of the range whose board status is not the
\* option mapped from its current label (the state C22_Witness describes).
C22_ConcurrentEdits == [][C22_WritesLabelRead]_vars

C22_Witness ==
    /\ pc = "done"
    /\ errors = 0
    /\ \E n \in IssueRange :
          /\ OutcomesOf(n) = {"updated"}
          /\ HasStatusLabel(n)
          /\ MappedOption(StatusLabelOf(n)) # None
          /\ \E k \in ProjectItemsOf(n) :
                /\ boardItems[n][k].status # NoStatus
                /\ boardItems[n][k].status # MappedOption(StatusLabelOf(n))

--------------------------------------------------------------------------
(* The counters of the reconciler *)

Counted == updated + skipped + errors

\* The issues whose iteration has finished.
FinishedIssues == {n \in IssueRange : n < issue_number}

\* The lines printed about issue n that go with a counter.
CountedLines(n, outcome) ==
    {k \in DOMAIN stdout : stdout[k].issue = n /\ OutcomeOfLine(stdout[k].line) = outcome}

C23_OneCounterPerIssue ==
    IF pc \in {"labels", "item", "update"} /\ issue_number' = issue_number + 1
    THEN /\ Counted' = Counted + 1
         /\ updated' >= updated
         /\ skipped' >= skipped
         /\ errors' >= errors
    ELSE <<updated, skipped, errors>>' = <<updated, skipped, errors>>

C23_SumIsFinished ==
    /\ Counted = Cardinality(FinishedIssues)
    /\ \A n \in FinishedIssues :
          Cardinality({k \in DOMAIN stdout : stdout[k].issue = n}) = 1
    /\ updated = Cardinality({n \in FinishedIssues : CountedLines(n, "updated") # {}})
    /\ skipped = Cardinality({n \in FinishedIssues : CountedLines(n, "skipped") # {}})
    /\ errors = Cardinality({n \in FinishedIssues : CountedLines(n, "error") # {}})
    /\ pc = "done" =>
          Counted = IF END_ISSUE >= START_ISSUE THEN END_ISSUE - START_ISSUE + 1 ELSE 0

\* The process is over: the summary is printed, or the run ended before the
\* loop.
RunEnded == pc \in {"done", "exited", "crashed"}

\* C23: at every point of a run updated + skipped + errors is the number of
\* issues whose iteration has finished, each of them having added one to
\* exactly one counter; when the loop has ended and the summary is printed
\* the sum is END - START + 1 (0 for an empty range); and the run always ends
\* when every external call returns or fails.
C23_CounterInvariant ==
    /\ [][C23_OneCounterPerIssue]_vars
    /\ []C23_SumIsFinished
    /\ <>RunEnded

C23_Witness ==
    /\ pc = "done"
    /\ END_ISSUE - START_ISSUE + 1 = 5
    /\ updated >= 1
    /\ skipped >= 1
    /\ errors >= 1
    /\ Counted = 5

--------------------------------------------------------------------------
(* What a run may write *)

\* The places <<n, k>> of the board items.
ItemPlaces ==
    {id \in (DOMAIN boardItems) \X (1..(ItemsPageSize + 1)) :
        id[2] \in DOMAIN boardItems[id[1]]}

\* The issues a successful update call was made for.
WrittenIssues == {n \in DOMAIN boardItems : CallOk("update", n)}

C24_OnlyStatusOfCurrentItem ==
    /\ issueLabels' = issueLabels
    /\ statusField' = statusField
    /\ DOMAIN boardItems' = DOMAIN boardItems
    /\ \A n \in DOMAIN boardItems : DOMAIN boardItems'[n] = DOMAIN boardItems[n]
    /\ \A id \in ItemPlaces :
          LET before == boardItems[id[1]][id[2]]
              after == boardItems'[id[1]][id[2]]
          IN  /\ after.project = before.project
              /\ after.status # before.status =>
                    /\ id[1] = issue_number
                    /\ id[1] \in IssueRange
                    /\ before.project = PROJECT_NUMBER
                    /\ pc = "update"

\* The board starts with no Status set, so an item that holds a Status has
\* been written by the run.
C24_LaterIssuesNotWritten ==
    /\ \A n \in WrittenIssues :
          /\ n \in IssueRange
          /\ n < issue_number
    /\ \A id \in ItemPlaces :
          boardItems[id[1]][id[2]].status # NoStatus =>
              /\ id[1] \in WrittenIssues
              /\ boardItems[id[1]][id[2]].project = PROJECT_NUMBER

\* C24: a run changes no issue's labels and nothing of the board but the
\* Status value of an item of the configured project whose issue is the one
\* being processed, inside START..END; items of issues outside the range and
\* items of other projects keep their value, and no issue with a number
\* greater than the one being processed has been written.
C24_Frame ==
    /\ [][C24_OnlyStatusOfCurrentItem]_vars
    /\ []C24_LaterIssuesNotWritten

C24_Witness ==
    /\ pc = "done"
    /\ START_ISSUE = 1
    /\ END_ISSUE = 1
    /\ WrittenIssues = {1}
    /\ HasStatusLabel(1)
    /\ boardItems[1] =
          <<Item(OtherProject(1)),
            [Item(PROJECT_NUMBER) EXCEPT !.status = MappedOption(StatusLabelOf(1))]>>
    /\ HasStatusLabel(2)
    /\ boardItems[2] = <<Item(OtherProject(1)), Item(PROJECT_NUMBER)>>

--------------------------------------------------------------------------
(* A board without a Status field *)

C25_ExitAtDiscovery ==
    (pc = "start" /\ statusField = NoField) =>
        /\ pc' \in {"exited", "crashed"}
        /\ exitStatus' = 1
        /\ IssueCalls' = {}
        /\ stdout' = << >>
        /\ boardItems' = boardItems

C25_NoIssueCallWithoutField ==
    /\ statusField = NoField =>
          /\ IssueCalls = {}
          /\ pc \in {"start", "exited", "crashed"}
          /\ pc = "start" \/ exitStatus = 1
    /\ IssueCalls # {} =>
          /\ calls[1] = Call("schema", 0, TRUE)
          /\ \A k \in IssueCalls : k > 1
          /\ status_field = statusField
          /\ status_field # NoField

\* C25: when the board has no field named Status the run ends with a
\* non-zero exit status before the labels of any issue are fetched and before
\* any update call; no call for an issue is ever made before the schema call
\* has succeeded and found the field.
C25_NoStatusField ==
    /\ [][C25_ExitAtDiscovery]_vars
    /\ []C25_NoIssueCallWithoutField

C25_Witness ==
    /\ statusField = NoField
    /\ pc = "exited"
    /\ exitStatus = 1
    /\ calls = <<Call("schema", 0, TRUE)>>
    /\ \E n \in IssueRange : HasStatusLabel(n) /\ ProjectItemsOf(n) # {}

==========================================================================
